---- MODULE Spec2Model ----
(***************************************************************************)
(* The interactive study sessions of the NeuraBuddy frontend: the Quiz,    *)
(* FlashCards, Teaching and ClinicalCase components, the requests they     *)
(* have in flight, and the AppProvider's persisted state.                  *)
(*                                                                         *)
(* One component is mounted at a time (the <Routes> of App.jsx).  A user   *)
(* action is enabled when its control is rendered and not disabled; the    *)
(* action then runs the handler, guards included.  Every awaited call is   *)
(* an entry of `pending`; its continuation runs when the answer arrives,   *)
(* with the values the handler closed over when it was called.             *)
(***************************************************************************)
EXTENDS Integers, Sequences, FiniteSets, TLC

VARIABLES
  route,          \* path of the mounted <Route>
  Quiz,           \* useState fields of the Quiz component
  FlashCards,     \* useState fields of the FlashCards component
  flashCardsData, \* AppProvider state restored from and written to localStorage
  localStorage,   \* the browser's store: key -> item
  Teaching,       \* useState fields of the Teaching component
  ClinicalCase,   \* useState fields of the ClinicalCase component
  pending,        \* awaited api calls, each with the closure of its caller
  op,             \* name of the step that led to this state
  alertMsg        \* text passed to alert() by that step, "" when none

vars == <<route, Quiz, FlashCards, flashCardsData, localStorage, Teaching, ClinicalCase,
          pending, op, alertMsg>>

\* Most items (questions, cards) the service returns for one session.
MaxItems == 2
\* Identifiers the service can hand out; one more than can be live at once.
MaxIds == 3
\* Most question-answer pairs of a teaching session, and most messages after
\* the presentation of a clinical session, at which the model still sends.
MaxTurns == 3
\* Most calls in flight where no flag of the component limits them.
MaxCalls == 2

null == [null |-> TRUE]

Ids == 1..MaxIds

(***************************************************************************)
(* Text the user types.  A text is a sequence of characters; trim is       *)
(* String.prototype.trim.                                                  *)
(***************************************************************************)
Texts == { <<" ">>, <<"a", " ">> }

RECURSIVE trimStart(_)
trimStart(s) == IF s # <<>> /\ Head(s) = " " THEN trimStart(Tail(s)) ELSE s

RECURSIVE trimEnd(_)
trimEnd(s) == IF s # <<>> /\ s[Len(s)] = " " THEN trimEnd(SubSeq(s, 1, Len(s) - 1)) ELSE s

\* A trim that returns the text as typed.
noTrim(s) == s

trim(s) == trimEnd(trimStart(s))

(***************************************************************************)
(* What the user types into a number field, and parseInt of it.  NaN is    *)
(* [nan |-> TRUE]; parseInt(v) || d is orDefault(parseInt(v), d).          *)
(***************************************************************************)
NumberTexts == { <<>>, <<"0">>, <<"3", "1">> }

digit(c) == CASE c = "0" -> 0 [] c = "1" -> 1 [] c = "2" -> 2 [] c = "3" -> 3
              [] c = "4" -> 4 [] c = "5" -> 5 [] c = "6" -> 6 [] c = "7" -> 7
              [] c = "8" -> 8 [] c = "9" -> 9

RECURSIVE digitsValue(_)
digitsValue(s) ==
  IF s = <<>> THEN 0
  ELSE 10 * digitsValue(SubSeq(s, 1, Len(s) - 1)) + digit(s[Len(s)])

parseInt(s) ==
  IF s = <<>> \/ s = <<"-">> THEN [nan |-> TRUE, value |-> 0]
  ELSE IF Head(s) = "-" THEN [nan |-> FALSE, value |-> 0 - digitsValue(Tail(s))]
  ELSE [nan |-> FALSE, value |-> digitsValue(s)]

orDefault(n, d) == IF n.nan \/ n.value = 0 THEN d ELSE n.value

(***************************************************************************)
(* Failures of an api call, as axios rejects them, and the response        *)
(* interceptor that rewrites the message of the ones without a response.   *)
(***************************************************************************)
AxiosErrors ==
  { [response |-> [detail |-> "detail from service"], code |-> "ERR_BAD_RESPONSE",
     message |-> "Request failed with status code 500"],
    [response |-> null, code |-> "ECONNABORTED", message |-> "timeout exceeded"],
    [response |-> null, code |-> "ERR_NETWORK", message |-> "Network Error"],
    [response |-> null, code |-> "ERR_CANCELED", message |-> "canceled"] }

interceptor(error) ==
  IF error.response = null
  THEN IF error.code = "ECONNABORTED"
       THEN [error EXCEPT !.message = "Request timeout. Please try again."]
       ELSE IF error.message = "Network Error"
            THEN [error EXCEPT !.message =
                    "Unable to connect to server. Please check if the backend is running."]
            ELSE [error EXCEPT !.message =
                    "Network error. Please check your connection and try again."]
  ELSE error

Rejections == { interceptor(e) : e \in AxiosErrors }

\* error.response?.data?.detail || fallback
detailOr(error, fallback) ==
  IF error.response # null THEN error.response.detail ELSE fallback

RemoveAt(s, i) == [j \in 1..(Len(s) - 1) |-> IF j < i THEN s[j] ELSE s[j + 1]]

\* The positions of `pending` that await the api call `api`.
Awaiting(api) == { i \in DOMAIN pending : pending[i].api = api }

Routes == { "/quiz", "/flashcards", "/teach", "/clinical" }

\* What a step of one component leaves alone: the other components.
QuizFrame ==
  UNCHANGED <<route, FlashCards, flashCardsData, localStorage, Teaching, ClinicalCase>>
FlashCardsFrame == UNCHANGED <<route, Quiz, Teaching, ClinicalCase>>
TeachingFrame ==
  UNCHANGED <<route, Quiz, FlashCards, flashCardsData, localStorage, ClinicalCase>>
ClinicalCaseFrame ==
  UNCHANGED <<route, Quiz, FlashCards, flashCardsData, localStorage, Teaching>>

(***************************************************************************)
(* Quiz                                                                    *)
(***************************************************************************)
\* useState(5) of numQuestions.
DefaultNumQuestions == 5

QuizInitial ==
  [ numQuestions |-> DefaultNumQuestions, quiz |-> null, currentQuestionIndex |-> 0, selectedAnswer |-> <<>>,
    answers |-> <<>>, feedback |-> null, loading |-> FALSE, starting |-> FALSE ]

\* Identifiers the quiz still refers to; the service never reuses one of them.
QuizIdsInUse ==
  (IF Quiz.quiz = null THEN {} ELSE {Quiz.quiz.quiz_id})
  \cup { q[1] : q \in DOMAIN Quiz.answers }
  \cup (IF Quiz.feedback = null THEN {} ELSE {Quiz.feedback.correct_answer[1]})
  \cup { pending[i].quiz_id : i \in Awaiting("submitAnswer") }

FreshId(used) == CHOOSE i \in Ids : i \notin used /\ \A j \in Ids : j < i => j \in used

\* The quiz the service builds for /quiz/start: n questions with their own ids.
QuizResponse(id, n) ==
  [ quiz_id |-> id, questions |-> [i \in 1..n |-> [question_id |-> <<id, i>>]] ]

\* The feedback the service returns for /quiz/answer on question qid.
QuizFeedbacks(qid) == { [is_correct |-> c, correct_answer |-> qid] : c \in BOOLEAN }

currentQuestion == Quiz.quiz.questions[Quiz.currentQuestionIndex + 1]
hasAnswered == currentQuestion.question_id \in DOMAIN Quiz.answers
isLastQuestion == Quiz.currentQuestionIndex = Len(Quiz.quiz.questions) - 1
allAnswered == Cardinality(DOMAIN Quiz.answers) = Len(Quiz.quiz.questions)

\* answers[id]?.answer || ''
answerOf(id) == IF id \in DOMAIN Quiz.answers THEN Quiz.answers[id].answer ELSE <<>>
\* answers[id]?.feedback || null
feedbackOf(id) == IF id \in DOMAIN Quiz.answers THEN Quiz.answers[id].feedback ELSE null

\* A page that renders the submit button for every question, answered or not.
submitButtonRenderedAlways == TRUE

\* The submit button is rendered only for a question without a recorded answer.
submitButtonRendered == ~hasAnswered

\* disabled={!selectedAnswer.trim() || loading}
submitButtonDisabled == trim(Quiz.selectedAnswer) = <<>> \/ Quiz.loading

Quiz_setSelectedAnswer(text) ==
  /\ route = "/quiz" /\ Quiz.quiz # null
  /\ ~hasAnswered
  /\ text # Quiz.selectedAnswer
  /\ Quiz' = [Quiz EXCEPT !.selectedAnswer = text]
  /\ QuizFrame /\ UNCHANGED pending
  /\ op' = "Quiz.setSelectedAnswer" /\ alertMsg' = ""

\* The Number of Questions field of the setup view.
Quiz_setNumQuestions(text) ==
  /\ route = "/quiz" /\ Quiz.quiz = null
  /\ orDefault(parseInt(text), DefaultNumQuestions) # Quiz.numQuestions
  /\ Quiz' = [Quiz EXCEPT
        !.numQuestions = orDefault(parseInt(text), DefaultNumQuestions)]
  /\ QuizFrame /\ UNCHANGED pending
  /\ op' = "Quiz.setNumQuestions" /\ alertMsg' = ""

Quiz_startQuiz ==
  /\ route = "/quiz" /\ Quiz.quiz = null
  /\ ~Quiz.starting
  /\ Quiz' = [Quiz EXCEPT !.starting = TRUE]
  /\ pending' = Append(pending,
        [api |-> "startQuiz", num_questions |-> Quiz.numQuestions])
  /\ QuizFrame
  /\ op' = "Quiz.startQuiz" /\ alertMsg' = ""

Quiz_startQuiz_resolved(i, n) ==
  /\ i \in Awaiting("startQuiz")
  /\ Quiz' = [Quiz EXCEPT !.quiz = QuizResponse(FreshId(QuizIdsInUse), n),
                          !.currentQuestionIndex = 0,
                          !.selectedAnswer = <<>>,
                          !.answers = <<>>,
                          !.feedback = null,
                          !.starting = FALSE]
  /\ pending' = RemoveAt(pending, i)
  /\ QuizFrame
  /\ op' = "Quiz.startQuiz.resolved" /\ alertMsg' = ""

Quiz_startQuiz_rejected(i, error) ==
  /\ i \in Awaiting("startQuiz")
  /\ Quiz' = [Quiz EXCEPT !.starting = FALSE]
  /\ pending' = RemoveAt(pending, i)
  /\ QuizFrame
  /\ op' = "Quiz.startQuiz.rejected"
  /\ alertMsg' = IF error.response # null THEN error.response.detail ELSE error.message

Quiz_submitAnswer ==
  /\ route = "/quiz" /\ Quiz.quiz # null
  /\ submitButtonRendered /\ ~submitButtonDisabled
  /\ ~(trim(Quiz.selectedAnswer) = <<>> \/ Quiz.quiz = null \/ Quiz.loading)
  /\ Quiz' = [Quiz EXCEPT !.loading = TRUE]
  /\ pending' = Append(pending,
        [ api |-> "submitAnswer", quiz_id |-> Quiz.quiz.quiz_id,
          question_id |-> currentQuestion.question_id,
          answer |-> trim(Quiz.selectedAnswer) ])
  /\ QuizFrame
  /\ op' = "Quiz.submitAnswer" /\ alertMsg' = ""

Quiz_submitAnswer_resolved(i, fb) ==
  /\ i \in Awaiting("submitAnswer")
  /\ fb \in QuizFeedbacks(pending[i].question_id)
  /\ Quiz' = [Quiz EXCEPT
        !.answers = (pending[i].question_id :>
                       [answer |-> pending[i].answer, feedback |-> fb]) @@ @,
        !.feedback = fb,
        !.loading = FALSE]
  /\ pending' = RemoveAt(pending, i)
  /\ QuizFrame
  /\ op' = "Quiz.submitAnswer.resolved" /\ alertMsg' = ""

Quiz_submitAnswer_rejected(i, error) ==
  /\ i \in Awaiting("submitAnswer")
  /\ Quiz' = [Quiz EXCEPT !.loading = FALSE]
  /\ pending' = RemoveAt(pending, i)
  /\ QuizFrame
  /\ op' = "Quiz.submitAnswer.rejected"
  /\ alertMsg' = detailOr(error, "Failed to submit answer")

\* Move to index idx and show what is recorded for the question there.
showQuestion(idx) ==
  LET id == Quiz.quiz.questions[idx + 1].question_id
  IN  Quiz' = [Quiz EXCEPT !.currentQuestionIndex = idx,
                           !.selectedAnswer = answerOf(id),
                           !.feedback = feedbackOf(id)]

Quiz_nextQuestion ==
  /\ route = "/quiz" /\ Quiz.quiz # null
  /\ ~isLastQuestion /\ hasAnswered
  /\ Quiz.currentQuestionIndex < Len(Quiz.quiz.questions) - 1
  /\ showQuestion(Quiz.currentQuestionIndex + 1)
  /\ QuizFrame /\ UNCHANGED pending
  /\ op' = "Quiz.nextQuestion" /\ alertMsg' = ""

Quiz_previousQuestion ==
  /\ route = "/quiz" /\ Quiz.quiz # null
  /\ Quiz.currentQuestionIndex # 0
  /\ Quiz.currentQuestionIndex > 0
  /\ showQuestion(Quiz.currentQuestionIndex - 1)
  /\ QuizFrame /\ UNCHANGED pending
  /\ op' = "Quiz.previousQuestion" /\ alertMsg' = ""

Quiz_questionDot(idx) ==
  /\ route = "/quiz" /\ Quiz.quiz # null
  /\ idx \in 0..(Len(Quiz.quiz.questions) - 1)
  /\ showQuestion(idx)
  /\ QuizFrame /\ UNCHANGED pending
  /\ op' = "Quiz.questionDot" /\ alertMsg' = ""

\* A reset that empties the whole store with localStorage.clear().
Quiz_resetQuiz_clearingStore ==
  /\ route = "/quiz" /\ Quiz.quiz # null
  /\ isLastQuestion \/ allAnswered
  /\ Quiz' = [Quiz EXCEPT !.quiz = null,
                          !.currentQuestionIndex = 0,
                          !.selectedAnswer = <<>>,
                          !.answers = <<>>,
                          !.feedback = null]
  /\ localStorage' = [key \in DOMAIN localStorage |-> null]
  /\ UNCHANGED <<route, FlashCards, flashCardsData, Teaching, ClinicalCase, pending>>
  /\ op' = "Quiz.resetQuiz" /\ alertMsg' = ""

Quiz_resetQuiz ==
  /\ route = "/quiz" /\ Quiz.quiz # null
  /\ isLastQuestion \/ allAnswered
  /\ Quiz' = [Quiz EXCEPT !.quiz = null,
                          !.currentQuestionIndex = 0,
                          !.selectedAnswer = <<>>,
                          !.answers = <<>>,
                          !.feedback = null]
  /\ QuizFrame /\ UNCHANGED pending
  /\ op' = "Quiz.resetQuiz" /\ alertMsg' = ""

(***************************************************************************)
(* AppProvider: the persisted state.  An item of localStorage is null      *)
(* (no such key) or a JSON text.                                           *)
(***************************************************************************)
STORAGE_KEYS ==
  [ chatMessages |-> "neurabuddy_chat_messages",
    teachingSession |-> "neurabuddy_teaching_session",
    quizState |-> "neurabuddy_quiz_state",
    flashCards |-> "neurabuddy_flash_cards" ]

StorageKeys == { STORAGE_KEYS[k] : k \in DOMAIN STORAGE_KEYS }

\* An item that is not the JSON text of a value has no json: JSON.parse of it
\* throws a SyntaxError.
JSONstringify(value) == [json |-> value]
JSONparse(text) ==
  IF "json" \in DOMAIN text THEN text.json ELSE [name |-> "SyntaxError"]

\* An initializer without the try/catch: the SyntaxError escapes it.
restore_uncaught(key) ==
  LET saved == localStorage[key]
  IN  IF saved # null THEN JSONparse(saved) ELSE null

\* The initializer of a persisted useState:
\* try { return saved ? JSON.parse(saved) : null } catch { return null }
restore(key) ==
  LET saved == localStorage[key]
  IN  IF saved # null
      THEN IF JSONparse(saved) = [name |-> "SyntaxError"] THEN null
           ELSE JSONparse(saved)
      ELSE null

(***************************************************************************)
(* FlashCards.  Scores are in tenths: 10 is the score 1.0.                 *)
(***************************************************************************)
Topics == { <<>>, <<"t">> }

\* useState initializers: topic, cards and currentIndex come from flashCardsData.
\* useState(10) of numCards.
DefaultNumCards == 10

FlashCardsInitial(data) ==
  [ numCards |-> DefaultNumCards,
    topic |-> IF data # null THEN data.topic ELSE <<>>,
    cards |-> IF data # null THEN data.cards ELSE <<>>,
    currentIndex |-> IF data # null THEN data.currentIndex ELSE 0,
    loading |-> FALSE, error |-> "",
    userAnswer |-> <<>>, showAnswer |-> FALSE, evaluation |-> null,
    evaluating |-> FALSE, cardResults |-> <<>>, totalScore |-> 0,
    sessionComplete |-> FALSE, analysis |-> null, analyzing |-> FALSE ]

\* The deck the service builds for /study/flash-cards: n cards of their own.
Deck(id, n) == [i \in 1..n |-> [front |-> <<id, i>>, back |-> <<id, i>>]]

DeckIds(cards) == { cards[i].front[1] : i \in DOMAIN cards }

\* Identifiers the flash cards still refer to.
FlashCardsIdsInUse ==
  DeckIds(FlashCards.cards)
  \cup (IF flashCardsData = null THEN {} ELSE DeckIds(flashCardsData.cards))
  \cup (LET saved == restore(STORAGE_KEYS.flashCards)
        IN  IF saved = null THEN {} ELSE DeckIds(saved.cards))
  \cup { FlashCards.cardResults[i].question[1] : i \in DOMAIN FlashCards.cardResults }
  \cup (IF FlashCards.evaluation = null THEN {} ELSE {FlashCards.evaluation.feedback[1]})
  \cup { pending[i].card.front[1] : i \in Awaiting("evaluateFlashCardAnswer") }

\* What the service may return for /study/flash-cards/evaluate on a card: a
\* score above 0 and the verdict of the service on it, which takes 0.8 for
\* correct.
Evaluations(card) ==
  { [score |-> 10, feedback |-> card.front, is_correct |-> TRUE, is_partial |-> FALSE],
    [score |-> 8, feedback |-> card.front, is_correct |-> TRUE, is_partial |-> FALSE],
    [score |-> 5, feedback |-> card.front, is_correct |-> FALSE, is_partial |-> TRUE] }

\* What the service may return for /study/flash-cards/analyze.
Analyses ==
  { [performance_summary |-> "summary", recommended_topics |-> ts] :
      ts \in { <<>>, << <<"t">> >> } }

\* localStorage.setItem(key, JSON.stringify(value ?? null)) inside try/catch:
\* the stores it can leave.  setItem throws when the store has no room for
\* the item, which cannot happen when null replaces a stored item.
setItem(store, key, value) ==
  { [store EXCEPT ![key] = JSONstringify(value)] }
    \cup (IF store[key] # null /\ value = null THEN {} ELSE {store})

\* A setter without the try/catch: the exception of setItem leaves the
\* updater of the state unfinished and the state as it was.
FlashCardsRender_throwing(next, wrote, value) ==
  LET depsChanged ==
        <<Len(next.cards), next.topic, next.currentIndex, next.sessionComplete>> #
        <<Len(FlashCards.cards), FlashCards.topic, FlashCards.currentIndex,
          FlashCards.sessionComplete>>
      effect == depsChanged /\ Len(next.cards) > 0 /\ ~next.sessionComplete
      data == IF effect
              THEN [cards |-> next.cards, topic |-> next.topic,
                    currentIndex |-> next.currentIndex]
              ELSE IF wrote THEN value ELSE flashCardsData
  IN  /\ FlashCards' = next
      /\ IF effect \/ wrote
         THEN /\ localStorage' \in setItem(localStorage, STORAGE_KEYS.flashCards, data)
              /\ flashCardsData' =
                   IF restore(STORAGE_KEYS.flashCards)' = data THEN data
                   ELSE flashCardsData
         ELSE UNCHANGED <<localStorage, flashCardsData>>

\* setFlashCardsData(next): the state and, best effort, the stored item.
\* The effect of FlashCards runs after the render that follows a handler
\* when one of [cards.length, topic, currentIndex, sessionComplete] changed;
\* a handler that called setFlashCardsData(value) itself wrote before it.
FlashCardsRender(next, wrote, value) ==
  LET depsChanged ==
        <<Len(next.cards), next.topic, next.currentIndex, next.sessionComplete>> #
        <<Len(FlashCards.cards), FlashCards.topic, FlashCards.currentIndex,
          FlashCards.sessionComplete>>
      effect == depsChanged /\ Len(next.cards) > 0 /\ ~next.sessionComplete
      data == IF effect
              THEN [cards |-> next.cards, topic |-> next.topic,
                    currentIndex |-> next.currentIndex]
              ELSE IF wrote THEN value ELSE flashCardsData
      afterHandler ==
        IF wrote THEN setItem(localStorage, STORAGE_KEYS.flashCards, value)
        ELSE {localStorage}
      afterEffect ==
        IF effect
        THEN UNION { setItem(store, STORAGE_KEYS.flashCards, data) :
                       store \in afterHandler }
        ELSE afterHandler
  IN  /\ FlashCards' = next
      /\ flashCardsData' = data
      /\ localStorage' \in afterEffect

setupRendered == Len(FlashCards.cards) = 0 /\ ~FlashCards.sessionComplete
completionRendered == FlashCards.sessionComplete /\ FlashCards.analysis # null
viewerRendered == Len(FlashCards.cards) > 0 /\ ~FlashCards.sessionComplete
answerInputRendered == viewerRendered /\ ~FlashCards.showAnswer
answerRevealRendered ==
  viewerRendered /\ FlashCards.showAnswer /\ FlashCards.evaluation # null

FlashCards_setTopic(text) ==
  /\ route = "/flashcards" /\ setupRendered
  /\ text # FlashCards.topic
  /\ FlashCardsRender([FlashCards EXCEPT !.topic = text], FALSE, null)
  /\ FlashCardsFrame /\ UNCHANGED pending
  /\ op' = "FlashCards.setTopic" /\ alertMsg' = ""

\* The Number of Cards field of the setup view.
FlashCards_setNumCards(text) ==
  /\ route = "/flashcards" /\ setupRendered
  /\ orDefault(parseInt(text), DefaultNumCards) # FlashCards.numCards
  /\ FlashCardsRender(
       [FlashCards EXCEPT !.numCards = orDefault(parseInt(text), DefaultNumCards)],
       FALSE, null)
  /\ FlashCardsFrame /\ UNCHANGED pending
  /\ op' = "FlashCards.setNumCards" /\ alertMsg' = ""

FlashCards_setUserAnswer(text) ==
  /\ route = "/flashcards" /\ answerInputRendered
  /\ ~FlashCards.evaluating
  /\ text # FlashCards.userAnswer
  /\ FlashCardsRender([FlashCards EXCEPT !.userAnswer = text], FALSE, null)
  /\ FlashCardsFrame /\ UNCHANGED pending
  /\ op' = "FlashCards.setUserAnswer" /\ alertMsg' = ""

FlashCards_generate ==
  /\ route = "/flashcards" /\ setupRendered
  /\ ~FlashCards.loading
  /\ FlashCardsRender([FlashCards EXCEPT !.loading = TRUE, !.error = ""], FALSE, null)
  /\ pending' = Append(pending,
        [api |-> "generateFlashCards", topic |-> FlashCards.topic,
         num_cards |-> FlashCards.numCards])
  /\ FlashCardsFrame
  /\ op' = "FlashCards.generate" /\ alertMsg' = ""

FlashCards_generate_resolved(i, n, resTopic) ==
  /\ i \in Awaiting("generateFlashCards")
  /\ LET newCards == Deck(FreshId(FlashCardsIdsInUse), n)
     IN  FlashCardsRender(
           [FlashCards EXCEPT !.cards = newCards,
                              !.currentIndex = 0,
                              !.userAnswer = <<>>,
                              !.showAnswer = FALSE,
                              !.evaluation = null,
                              !.cardResults = <<>>,
                              !.totalScore = 0,
                              !.sessionComplete = FALSE,
                              !.analysis = null,
                              !.loading = FALSE],
           TRUE,
           [cards |-> newCards,
            topic |-> IF resTopic # <<>> THEN resTopic ELSE pending[i].topic,
            currentIndex |-> 0])
  /\ pending' = RemoveAt(pending, i)
  /\ FlashCardsFrame
  /\ op' = "FlashCards.generate.resolved" /\ alertMsg' = ""

FlashCards_generate_rejected(i, error) ==
  /\ i \in Awaiting("generateFlashCards")
  /\ FlashCardsRender(
       [FlashCards EXCEPT !.error = detailOr(error, "Failed to generate flash cards"),
                          !.cards = <<>>,
                          !.loading = FALSE],
       FALSE, null)
  /\ pending' = RemoveAt(pending, i)
  /\ FlashCardsFrame
  /\ op' = "FlashCards.generate.rejected" /\ alertMsg' = ""

FlashCards_submitAnswer ==
  /\ route = "/flashcards" /\ answerInputRendered
  /\ ~(trim(FlashCards.userAnswer) = <<>> \/ FlashCards.evaluating)
  /\ FlashCardsRender([FlashCards EXCEPT !.evaluating = TRUE], FALSE, null)
  /\ pending' = Append(pending,
        [api |-> "evaluateFlashCardAnswer",
         card |-> FlashCards.cards[FlashCards.currentIndex + 1],
         user_answer |-> trim(FlashCards.userAnswer)])
  /\ FlashCardsFrame
  /\ op' = "FlashCards.submitAnswer" /\ alertMsg' = ""

\* A continuation that adds the score of correct answers only, dropping the
\* partial credit.
FlashCards_submitAnswer_resolved_noPartial(i, result) ==
  /\ i \in Awaiting("evaluateFlashCardAnswer")
  /\ result \in Evaluations(pending[i].card)
  /\ FlashCardsRender(
       [FlashCards EXCEPT
          !.evaluation = result,
          !.showAnswer = TRUE,
          !.totalScore = @ + (IF result.is_correct THEN result.score ELSE 0),
          !.cardResults = Append(@,
             [question |-> pending[i].card.front,
              user_answer |-> pending[i].user_answer,
              correct_answer |-> pending[i].card.back,
              score |-> result.score,
              feedback |-> result.feedback]),
          !.evaluating = FALSE],
       FALSE, null)
  /\ pending' = RemoveAt(pending, i)
  /\ FlashCardsFrame
  /\ op' = "FlashCards.submitAnswer.resolved" /\ alertMsg' = ""

FlashCards_submitAnswer_resolved(i, result) ==
  /\ i \in Awaiting("evaluateFlashCardAnswer")
  /\ result \in Evaluations(pending[i].card)
  /\ FlashCardsRender(
       [FlashCards EXCEPT
          !.evaluation = result,
          !.showAnswer = TRUE,
          !.totalScore = @ + result.score,
          !.cardResults = Append(@,
             [question |-> pending[i].card.front,
              user_answer |-> pending[i].user_answer,
              correct_answer |-> pending[i].card.back,
              score |-> result.score,
              feedback |-> result.feedback]),
          !.evaluating = FALSE],
       FALSE, null)
  /\ pending' = RemoveAt(pending, i)
  /\ FlashCardsFrame
  /\ op' = "FlashCards.submitAnswer.resolved" /\ alertMsg' = ""

\* A catch branch that counts the failed evaluation as a wrong answer.
FlashCards_submitAnswer_rejected_recording(i) ==
  /\ i \in Awaiting("evaluateFlashCardAnswer")
  /\ FlashCardsRender(
       [FlashCards EXCEPT
          !.error = "Failed to evaluate answer",
          !.cardResults = Append(@,
             [question |-> pending[i].card.front,
              user_answer |-> pending[i].user_answer,
              correct_answer |-> pending[i].card.back,
              score |-> 0,
              feedback |-> pending[i].card.front]),
          !.evaluating = FALSE],
       FALSE, null)
  /\ pending' = RemoveAt(pending, i)
  /\ FlashCardsFrame
  /\ op' = "FlashCards.submitAnswer.rejected" /\ alertMsg' = ""

FlashCards_submitAnswer_rejected(i) ==
  /\ i \in Awaiting("evaluateFlashCardAnswer")
  /\ FlashCardsRender(
       [FlashCards EXCEPT !.error = "Failed to evaluate answer", !.evaluating = FALSE],
       FALSE, null)
  /\ pending' = RemoveAt(pending, i)
  /\ FlashCardsFrame
  /\ op' = "FlashCards.submitAnswer.rejected" /\ alertMsg' = ""

\* A goToCard that opens the card for a new answer and forgets its result and
\* the ones after it.
goToCard_forgetting(idx) ==
  [FlashCards EXCEPT !.currentIndex = idx,
                     !.userAnswer = <<>>,
                     !.showAnswer = FALSE,
                     !.evaluation = null,
                     !.cardResults = SubSeq(@, 1, idx)]

\* The state goToCard(idx) leaves: the card at idx with cardResults[idx], if any.
goToCard(idx) ==
  IF idx + 1 \in DOMAIN FlashCards.cardResults
  THEN LET prevResult == FlashCards.cardResults[idx + 1]
       IN  [FlashCards EXCEPT
              !.currentIndex = idx,
              !.userAnswer = prevResult.user_answer,
              !.showAnswer = TRUE,
              !.evaluation =
                 [score |-> prevResult.score,
                  feedback |-> prevResult.feedback,
                  is_correct |-> prevResult.score >= 10,
                  is_partial |-> prevResult.score > 0 /\ prevResult.score < 10]]
  ELSE [FlashCards EXCEPT !.currentIndex = idx,
                          !.userAnswer = <<>>,
                          !.showAnswer = FALSE,
                          !.evaluation = null]

\* Next Card / Complete Session; the last card completes and calls analyzeSession.
FlashCards_nextCard ==
  /\ route = "/flashcards" /\ answerRevealRendered
  /\ IF FlashCards.currentIndex < Len(FlashCards.cards) - 1
     THEN /\ FlashCardsRender(goToCard(FlashCards.currentIndex + 1), FALSE, null)
          /\ UNCHANGED pending
     ELSE /\ FlashCardsRender(
               [FlashCards EXCEPT !.sessionComplete = TRUE, !.analyzing = TRUE],
               FALSE, null)
          /\ pending' = Append(pending,
               [api |-> "analyzeFlashCardSession",
                topic |-> IF FlashCards.topic # <<>> THEN FlashCards.topic
                          ELSE <<"n">>,
                total_score |-> FlashCards.totalScore,
                max_score |-> Len(FlashCards.cards),
                card_results |-> FlashCards.cardResults])
  /\ FlashCardsFrame
  /\ op' = "FlashCards.nextCard" /\ alertMsg' = ""

\* A Previous that is not disabled on the first card and does not check.
FlashCards_prevCard_unchecked ==
  /\ route = "/flashcards" /\ viewerRendered
  /\ FlashCardsRender(goToCard(FlashCards.currentIndex - 1), FALSE, null)
  /\ FlashCardsFrame /\ UNCHANGED pending
  /\ op' = "FlashCards.prevCard" /\ alertMsg' = ""

FlashCards_prevCard ==
  /\ route = "/flashcards" /\ viewerRendered
  /\ FlashCards.currentIndex # 0
  /\ FlashCards.currentIndex > 0
  /\ FlashCardsRender(goToCard(FlashCards.currentIndex - 1), FALSE, null)
  /\ FlashCardsFrame /\ UNCHANGED pending
  /\ op' = "FlashCards.prevCard" /\ alertMsg' = ""

FlashCards_analyzeSession_resolved(i, result) ==
  /\ i \in Awaiting("analyzeFlashCardSession")
  /\ FlashCardsRender(
       [FlashCards EXCEPT !.analysis = result, !.analyzing = FALSE], FALSE, null)
  /\ pending' = RemoveAt(pending, i)
  /\ FlashCardsFrame
  /\ op' = "FlashCards.analyzeSession.resolved" /\ alertMsg' = ""

FlashCards_analyzeSession_rejected(i) ==
  /\ i \in Awaiting("analyzeFlashCardSession")
  /\ FlashCardsRender(
       [FlashCards EXCEPT !.error = "Failed to analyze session", !.analyzing = FALSE],
       FALSE, null)
  /\ pending' = RemoveAt(pending, i)
  /\ FlashCardsFrame
  /\ op' = "FlashCards.analyzeSession.rejected" /\ alertMsg' = ""

\* The state startNewSession(recommendedTopic) leaves; <<>> stands for no topic.
\* A new session that forgets to drop the results and the score of the old one.
startNewSession_keepingResults(recommendedTopic) ==
  [FlashCards EXCEPT
     !.topic = IF recommendedTopic # <<>> THEN recommendedTopic ELSE @,
     !.cards = <<>>,
     !.currentIndex = 0,
     !.userAnswer = <<>>,
     !.showAnswer = FALSE,
     !.evaluation = null,
     !.sessionComplete = FALSE,
     !.analysis = null]

startNewSession(recommendedTopic) ==
  [FlashCards EXCEPT
     !.topic = IF recommendedTopic # <<>> THEN recommendedTopic ELSE @,
     !.cards = <<>>,
     !.currentIndex = 0,
     !.userAnswer = <<>>,
     !.showAnswer = FALSE,
     !.evaluation = null,
     !.cardResults = <<>>,
     !.totalScore = 0,
     !.sessionComplete = FALSE,
     !.analysis = null]

\* Start Over in the viewer.
FlashCards_startOver ==
  /\ route = "/flashcards" /\ viewerRendered
  /\ FlashCardsRender(startNewSession(<<>>), TRUE, null)
  /\ FlashCardsFrame /\ UNCHANGED pending
  /\ op' = "FlashCards.startOver" /\ alertMsg' = ""

\* Start New Session, or a recommended topic chip, in the completion panel.
FlashCards_startNewSession(recommendedTopic) ==
  /\ route = "/flashcards" /\ completionRendered
  /\ \/ recommendedTopic = <<>>
     \/ \E k \in DOMAIN FlashCards.analysis.recommended_topics :
          FlashCards.analysis.recommended_topics[k] = recommendedTopic
  /\ FlashCardsRender(startNewSession(recommendedTopic), TRUE, null)
  /\ FlashCardsFrame /\ UNCHANGED pending
  /\ op' = "FlashCards.startNewSession" /\ alertMsg' = ""

(***************************************************************************)
(* Teaching (Socratic questions).  The service is stateless: the question  *)
(* it returns follows from the answers sent.                               *)
(***************************************************************************)
TeachingInitial ==
  [ topic |-> <<>>, session |-> null, qaPairs |-> <<>>, currentAnswer |-> <<>>,
    loading |-> FALSE, concepts |-> <<>> ]

\* What the service may return for /teach given the answers so far.
TeachResponses(previous_responses) ==
  { [question |-> Len(previous_responses) + 1, is_complete |-> c,
     concepts_covered |-> <<"concept">>] : c \in BOOLEAN }

answersOf(pairs) == [k \in DOMAIN pairs |-> pairs[k].answer]

Teaching_setTopic(text) ==
  /\ route = "/teach" /\ Teaching.session = null
  /\ text # Teaching.topic
  /\ Teaching' = [Teaching EXCEPT !.topic = text]
  /\ TeachingFrame /\ UNCHANGED pending
  /\ op' = "Teaching.setTopic" /\ alertMsg' = ""

\* Start Learning (disabled while loading), or Enter in the topic field.
Teaching_startSession(byEnter) ==
  /\ route = "/teach" /\ Teaching.session = null
  /\ byEnter \/ ~(trim(Teaching.topic) = <<>> \/ Teaching.loading)
  /\ Len(pending) < MaxCalls
  /\ trim(Teaching.topic) # <<>>
  /\ Teaching' = [Teaching EXCEPT !.loading = TRUE]
  /\ pending' = Append(pending,
        [api |-> "teach", caller |-> "startSession",
         topic |-> trim(Teaching.topic), previous_responses |-> <<>>])
  /\ TeachingFrame
  /\ op' = "Teaching.startSession" /\ alertMsg' = ""

Teaching_startSession_resolved(i, response) ==
  /\ i \in Awaiting("teach") /\ pending[i].caller = "startSession"
  /\ response \in TeachResponses(pending[i].previous_responses)
  /\ Teaching' = [Teaching EXCEPT
        !.session = [topic |-> pending[i].topic,
                     currentQuestion |-> response.question,
                     isComplete |-> response.is_complete],
        !.concepts = response.concepts_covered,
        !.qaPairs = <<>>,
        !.loading = FALSE]
  /\ pending' = RemoveAt(pending, i)
  /\ TeachingFrame
  /\ op' = "Teaching.startSession.resolved" /\ alertMsg' = ""

Teaching_startSession_rejected(i, error) ==
  /\ i \in Awaiting("teach") /\ pending[i].caller = "startSession"
  /\ Teaching' = [Teaching EXCEPT !.loading = FALSE]
  /\ pending' = RemoveAt(pending, i)
  /\ TeachingFrame
  /\ op' = "Teaching.startSession.rejected"
  /\ alertMsg' = detailOr(error, "Failed to start session")

Teaching_setCurrentAnswer(text) ==
  /\ route = "/teach" /\ Teaching.session # null
  /\ ~Teaching.session.isComplete /\ ~Teaching.loading
  /\ text # Teaching.currentAnswer
  /\ Teaching' = [Teaching EXCEPT !.currentAnswer = text]
  /\ TeachingFrame /\ UNCHANGED pending
  /\ op' = "Teaching.setCurrentAnswer" /\ alertMsg' = ""

Teaching_submitAnswer ==
  /\ route = "/teach" /\ Teaching.session # null
  /\ ~Teaching.session.isComplete
  /\ ~(trim(Teaching.currentAnswer) = <<>> \/ Teaching.session = null \/ Teaching.loading)
  /\ Len(Teaching.qaPairs) + Cardinality(Awaiting("teach")) < MaxTurns
  /\ Teaching' = [Teaching EXCEPT !.currentAnswer = <<>>, !.loading = TRUE]
  /\ pending' = Append(pending,
        [api |-> "teach", caller |-> "submitAnswer",
         session |-> Teaching.session,
         currentQ |-> Teaching.session.currentQuestion,
         userResponse |-> trim(Teaching.currentAnswer),
         previous_responses |->
            Append(answersOf(Teaching.qaPairs), trim(Teaching.currentAnswer))])
  /\ TeachingFrame
  /\ op' = "Teaching.submitAnswer" /\ alertMsg' = ""

\* Enter in the answer field with nothing but blanks in it: submitAnswer
\* returns at its guard.
Teaching_submitAnswer_ignored ==
  /\ route = "/teach" /\ Teaching.session # null
  /\ ~Teaching.session.isComplete
  /\ ~Teaching.loading
  /\ trim(Teaching.currentAnswer) = <<>> \/ Teaching.session = null \/ Teaching.loading
  /\ UNCHANGED <<Teaching, pending>>
  /\ TeachingFrame
  /\ op' = "Teaching.submitAnswer.ignored" /\ alertMsg' = ""

\* A continuation that keeps only the new pair: setQaPairs([{question, answer}]).
Teaching_submitAnswer_resolved_forgetting(i, response) ==
  /\ i \in Awaiting("teach") /\ pending[i].caller = "submitAnswer"
  /\ response \in TeachResponses(pending[i].previous_responses)
  /\ Teaching' = [Teaching EXCEPT
        !.qaPairs = << [question |-> pending[i].currentQ,
                        answer |-> pending[i].userResponse] >>,
        !.session = [pending[i].session EXCEPT
                       !.currentQuestion = response.question,
                       !.isComplete = response.is_complete],
        !.concepts = response.concepts_covered,
        !.loading = FALSE]
  /\ pending' = RemoveAt(pending, i)
  /\ TeachingFrame
  /\ op' = "Teaching.submitAnswer.resolved" /\ alertMsg' = ""

Teaching_submitAnswer_resolved(i, response) ==
  /\ i \in Awaiting("teach") /\ pending[i].caller = "submitAnswer"
  /\ response \in TeachResponses(pending[i].previous_responses)
  /\ Teaching' = [Teaching EXCEPT
        !.qaPairs = Append(@, [question |-> pending[i].currentQ,
                               answer |-> pending[i].userResponse]),
        !.session = [pending[i].session EXCEPT
                       !.currentQuestion = response.question,
                       !.isComplete = response.is_complete],
        !.concepts = response.concepts_covered,
        !.loading = FALSE]
  /\ pending' = RemoveAt(pending, i)
  /\ TeachingFrame
  /\ op' = "Teaching.submitAnswer.resolved" /\ alertMsg' = ""

Teaching_submitAnswer_rejected(i, error) ==
  /\ i \in Awaiting("teach") /\ pending[i].caller = "submitAnswer"
  /\ Teaching' = [Teaching EXCEPT !.loading = FALSE]
  /\ pending' = RemoveAt(pending, i)
  /\ TeachingFrame
  /\ op' = "Teaching.submitAnswer.rejected"
  /\ alertMsg' = detailOr(error, "Failed to process answer")

Teaching_resetSession ==
  /\ route = "/teach" /\ Teaching.session # null
  /\ Teaching' = [Teaching EXCEPT !.session = null,
                                  !.qaPairs = <<>>,
                                  !.currentAnswer = <<>>,
                                  !.concepts = <<>>]
  /\ TeachingFrame /\ UNCHANGED pending
  /\ op' = "Teaching.resetSession" /\ alertMsg' = ""

(***************************************************************************)
(* ClinicalCase                                                            *)
(***************************************************************************)
\* useState(3) of availableHints, also the default of startSession and the
\* value resetSession restores.
InitialHints == 3

ClinicalCaseInitial ==
  [ session |-> null, messages |-> <<>>, input |-> <<>>, loading |-> FALSE,
    starting |-> FALSE, error |-> "", availableHints |-> InitialHints,
    showingHint |-> FALSE ]

ClinicalCaseIdsInUse ==
  (IF ClinicalCase.session = null THEN {} ELSE {ClinicalCase.session.session_id})
  \cup { pending[i].session_id : i \in Awaiting("interactClinicalSession") }

\* What the service may return for /study/clinical-session/start.
ClinicalStartResponses(id) ==
  { [session_id |-> id, stage |-> "initial", available_hints |-> h] :
      h \in 0..InitialHints }

\* What the service may return for /study/clinical-session/interact.
ClinicalResponses(session_id) ==
  { [ai_response |-> session_id, stage |-> st, available_hints |-> h,
     session_complete |-> c, completion_data |-> d] :
      st \in {"initial", "complete"}, h \in 0..InitialHints,
      c \in BOOLEAN, d \in {null, [performance_summary |-> "summary"]} }

ClinicalCase_setInput(text) ==
  /\ route = "/clinical" /\ ClinicalCase.session # null
  /\ ~ClinicalCase.loading
  /\ text # ClinicalCase.input
  /\ ClinicalCase' = [ClinicalCase EXCEPT !.input = text]
  /\ ClinicalCaseFrame /\ UNCHANGED pending
  /\ op' = "ClinicalCase.setInput" /\ alertMsg' = ""

ClinicalCase_startSession ==
  /\ route = "/clinical" /\ ClinicalCase.session = null
  /\ ~ClinicalCase.starting
  /\ ClinicalCase' = [ClinicalCase EXCEPT !.starting = TRUE, !.error = ""]
  /\ pending' = Append(pending, [api |-> "startClinicalSession"])
  /\ ClinicalCaseFrame
  /\ op' = "ClinicalCase.startSession" /\ alertMsg' = ""

ClinicalCase_startSession_resolved(i, res) ==
  /\ i \in Awaiting("startClinicalSession")
  /\ res \in ClinicalStartResponses(FreshId(ClinicalCaseIdsInUse))
  /\ ClinicalCase' = [ClinicalCase EXCEPT
        !.session = res,
        !.availableHints =
           IF res.available_hints # 0 THEN res.available_hints ELSE InitialHints,
        !.messages = << [type |-> "system", content |-> res.session_id],
                        [type |-> "presentation", content |-> res.session_id] >>,
        !.starting = FALSE]
  /\ pending' = RemoveAt(pending, i)
  /\ ClinicalCaseFrame
  /\ op' = "ClinicalCase.startSession.resolved" /\ alertMsg' = ""

ClinicalCase_startSession_rejected(i, error) ==
  /\ i \in Awaiting("startClinicalSession")
  /\ ClinicalCase' = [ClinicalCase EXCEPT
        !.error = detailOr(error, "Failed to start clinical session"),
        !.starting = FALSE]
  /\ pending' = RemoveAt(pending, i)
  /\ ClinicalCaseFrame
  /\ op' = "ClinicalCase.startSession.rejected" /\ alertMsg' = ""

\* The hint button (requestHint) or the form (a message of the student).
ClinicalCase_sendMessage(requestHint) ==
  /\ route = "/clinical" /\ ClinicalCase.session # null
  /\ IF requestHint
     THEN ~(ClinicalCase.loading \/ ClinicalCase.availableHints = 0)
     ELSE ~(trim(ClinicalCase.input) = <<>> \/ ClinicalCase.loading)
  /\ ~((trim(ClinicalCase.input) = <<>> /\ ~requestHint) \/ ClinicalCase.loading)
  /\ Len(ClinicalCase.messages) < 2 + MaxTurns
  /\ ClinicalCase' = [ClinicalCase EXCEPT
        !.messages = IF requestHint THEN @
                     ELSE Append(@, [type |-> "student",
                                     content |-> ClinicalCase.session.session_id]),
        !.input = IF requestHint THEN @ ELSE <<>>,
        !.loading = TRUE,
        !.showingHint = requestHint]
  /\ pending' = Append(pending,
        [api |-> "interactClinicalSession",
         session_id |-> ClinicalCase.session.session_id,
         user_message |-> IF trim(ClinicalCase.input) # <<>>
                          THEN trim(ClinicalCase.input)
                          ELSE <<"(requested hint)">>,
         request_hint |-> requestHint])
  /\ ClinicalCaseFrame
  /\ op' = "ClinicalCase.sendMessage" /\ alertMsg' = ""

ClinicalCase_sendMessage_resolved(i, res) ==
  /\ i \in Awaiting("interactClinicalSession")
  /\ res \in ClinicalResponses(pending[i].session_id)
  /\ ClinicalCase' = [ClinicalCase EXCEPT
        !.messages =
           LET aiMessage == [type |-> IF pending[i].request_hint THEN "hint"
                                      ELSE "response",
                             content |-> res.ai_response]
           IN  IF res.session_complete /\ res.completion_data # null
               THEN @ \o << aiMessage,
                            [type |-> "completion", content |-> res.ai_response] >>
               ELSE Append(@, aiMessage),
        !.availableHints = res.available_hints,
        !.session = IF @ # null THEN [@ EXCEPT !.stage = res.stage] ELSE @,
        !.loading = FALSE,
        !.showingHint = FALSE]
  /\ pending' = RemoveAt(pending, i)
  /\ ClinicalCaseFrame
  /\ op' = "ClinicalCase.sendMessage.resolved" /\ alertMsg' = ""

ClinicalCase_sendMessage_rejected(i, error) ==
  /\ i \in Awaiting("interactClinicalSession")
  /\ ClinicalCase' = [ClinicalCase EXCEPT
        !.error = detailOr(error, "Failed to process message"),
        !.loading = FALSE,
        !.showingHint = FALSE]
  /\ pending' = RemoveAt(pending, i)
  /\ ClinicalCaseFrame
  /\ op' = "ClinicalCase.sendMessage.rejected" /\ alertMsg' = ""

\* Start New Case and the topic chips are part of a completion message.
completionMessageRendered ==
  /\ ClinicalCase.session # null
  /\ \E k \in DOMAIN ClinicalCase.messages :
        ClinicalCase.messages[k].type = "completion"

ClinicalCase_resetSession ==
  /\ route = "/clinical" /\ completionMessageRendered
  /\ ClinicalCase' = [ClinicalCase EXCEPT !.session = null,
                                          !.messages = <<>>,
                                          !.input = <<>>,
                                          !.availableHints = InitialHints,
                                          !.error = ""]
  /\ ClinicalCaseFrame /\ UNCHANGED pending
  /\ op' = "ClinicalCase.resetSession" /\ alertMsg' = ""

(***************************************************************************)
(* Reloading the page: the mounted component starts again from its initial *)
(* state, the AppProvider restores from localStorage, and the calls of the *)
(* page that was left are gone.  The effect of FlashCards runs on mount    *)
(* and writes back what was restored.                                      *)
(***************************************************************************)
Reload ==
  /\ UNCHANGED route
  /\ Quiz' = QuizInitial
  /\ flashCardsData' = restore(STORAGE_KEYS.flashCards)
  /\ FlashCards' = FlashCardsInitial(IF route = "/flashcards" THEN flashCardsData' ELSE null)
  /\ UNCHANGED localStorage
  /\ Teaching' = TeachingInitial
  /\ ClinicalCase' = ClinicalCaseInitial
  /\ pending' = <<>>
  /\ op' = "reload" /\ alertMsg' = ""

\* The page loads on one of the routes.  On the flash cards route the store is
\* empty (a stored deck is reached there through Reload); on the other routes
\* it holds what earlier visits left: the deck of the flash cards, on the quiz
\* route next to an item of the teaching session that is not JSON, and on the
\* teaching route an item of the flash cards that is not JSON.
Init ==
  /\ route \in Routes
  /\ Quiz = QuizInitial
  /\ localStorage =
       [key \in StorageKeys |->
          IF key = STORAGE_KEYS.flashCards /\ route \in {"/quiz", "/clinical"}
          THEN JSONstringify([cards |-> Deck(1, 1), topic |-> <<"t">>,
                              currentIndex |-> 0])
          ELSE IF \/ key = STORAGE_KEYS.flashCards /\ route = "/teach"
                  \/ key = STORAGE_KEYS.teachingSession /\ route = "/quiz"
               THEN [text |-> "{"]
               ELSE null]
  /\ flashCardsData = restore(STORAGE_KEYS.flashCards)
  /\ FlashCards = FlashCardsInitial(null)
  /\ Teaching = TeachingInitial
  /\ ClinicalCase = ClinicalCaseInitial
  /\ pending = <<>>
  /\ op = "load" /\ alertMsg = ""

Next ==
  \/ Reload
  \/ \E text \in Texts : Quiz_setSelectedAnswer(text)
  \/ \E text \in NumberTexts : Quiz_setNumQuestions(text)
  \/ Quiz_startQuiz
  \/ \E i \in Awaiting("startQuiz"), n \in 1..MaxItems : Quiz_startQuiz_resolved(i, n)
  \/ \E i \in Awaiting("startQuiz"), error \in Rejections : Quiz_startQuiz_rejected(i, error)
  \/ Quiz_submitAnswer
  \/ \E i \in Awaiting("submitAnswer") :
       \E fb \in QuizFeedbacks(pending[i].question_id) : Quiz_submitAnswer_resolved(i, fb)
  \/ \E i \in Awaiting("submitAnswer"), error \in Rejections : Quiz_submitAnswer_rejected(i, error)
  \/ Quiz_nextQuestion
  \/ Quiz_previousQuestion
  \/ \E idx \in 0..(MaxItems - 1) : Quiz_questionDot(idx)
  \/ Quiz_resetQuiz
  \/ \E text \in Topics : FlashCards_setTopic(text)
  \/ \E text \in NumberTexts : FlashCards_setNumCards(text)
  \/ \E text \in Texts : FlashCards_setUserAnswer(text)
  \/ FlashCards_generate
  \/ \E i \in Awaiting("generateFlashCards"), n \in 0..MaxItems, resTopic \in Topics :
       FlashCards_generate_resolved(i, n, resTopic)
  \/ \E i \in Awaiting("generateFlashCards"), error \in Rejections :
       FlashCards_generate_rejected(i, error)
  \/ FlashCards_submitAnswer
  \/ \E i \in Awaiting("evaluateFlashCardAnswer") :
       \E result \in Evaluations(pending[i].card) : FlashCards_submitAnswer_resolved(i, result)
  \/ \E i \in Awaiting("evaluateFlashCardAnswer") : FlashCards_submitAnswer_rejected(i)
  \/ FlashCards_nextCard
  \/ FlashCards_prevCard
  \/ \E i \in Awaiting("analyzeFlashCardSession"), result \in Analyses :
       FlashCards_analyzeSession_resolved(i, result)
  \/ \E i \in Awaiting("analyzeFlashCardSession") : FlashCards_analyzeSession_rejected(i)
  \/ FlashCards_startOver
  \/ \E t \in Topics : FlashCards_startNewSession(t)
  \/ \E text \in Topics : Teaching_setTopic(text)
  \/ \E byEnter \in BOOLEAN : Teaching_startSession(byEnter)
  \/ \E i \in Awaiting("teach") :
       \E response \in TeachResponses(pending[i].previous_responses) :
         Teaching_startSession_resolved(i, response)
  \/ \E i \in Awaiting("teach"), error \in Rejections :
       Teaching_startSession_rejected(i, error)
  \/ \E text \in Texts : Teaching_setCurrentAnswer(text)
  \/ Teaching_submitAnswer
  \/ Teaching_submitAnswer_ignored
  \/ \E i \in Awaiting("teach") :
       \E response \in TeachResponses(pending[i].previous_responses) :
         Teaching_submitAnswer_resolved(i, response)
  \/ \E i \in Awaiting("teach"), error \in Rejections :
       Teaching_submitAnswer_rejected(i, error)
  \/ Teaching_resetSession
  \/ \E text \in Texts : ClinicalCase_setInput(text)
  \/ ClinicalCase_startSession
  \/ \E i \in Awaiting("startClinicalSession") :
       \E res \in ClinicalStartResponses(FreshId(ClinicalCaseIdsInUse)) :
         ClinicalCase_startSession_resolved(i, res)
  \/ \E i \in Awaiting("startClinicalSession"), error \in Rejections :
       ClinicalCase_startSession_rejected(i, error)
  \/ \E requestHint \in BOOLEAN : ClinicalCase_sendMessage(requestHint)
  \/ \E i \in Awaiting("interactClinicalSession") :
       \E res \in ClinicalResponses(pending[i].session_id) :
         ClinicalCase_sendMessage_resolved(i, res)
  \/ \E i \in Awaiting("interactClinicalSession"), error \in Rejections :
       ClinicalCase_sendMessage_rejected(i, error)
  \/ ClinicalCase_resetSession

Spec == Init /\ [][Next]_vars

(***************************************************************************)
(* What a session is, per modality.                                        *)
(***************************************************************************)
QuizPresent == Quiz.quiz # null
FlashCardsPresent == Len(FlashCards.cards) > 0
TeachingPresent == Teaching.session # null
ClinicalCasePresent == ClinicalCase.session # null

\* The cards of the deck that have a result in cardResults.
cardHasResult(card) ==
  \E k \in DOMAIN FlashCards.cardResults : FlashCards.cardResults[k].question = card.front

(***************************************************************************)
(* C1  Quiz answer-once.  No /quiz/answer request is ever sent for a       *)
(* question that has a recorded answer, and as long as the quiz is the     *)
(* same quiz a recorded answer and its feedback never change, whatever     *)
(* steps (navigation included) are taken.                                  *)
(***************************************************************************)
C1_QuizAnswerOnce ==
  [][ /\ op' = "Quiz.submitAnswer" =>
           pending'[Len(pending')].question_id \notin DOMAIN Quiz.answers
      /\ (Quiz.quiz # null /\ Quiz'.quiz = Quiz.quiz) =>
           \A q \in DOMAIN Quiz.answers :
              q \in DOMAIN Quiz'.answers /\ Quiz'.answers[q] = Quiz.answers[q]
    ]_vars

\* The user is back on an answered question, its answer is in the field and
\* nothing is loading: only the missing submit button stands in the way.
C1_Witness ==
  /\ route = "/quiz" /\ Quiz.quiz # null
  /\ op = "Quiz.questionDot"
  /\ hasAnswered /\ ~submitButtonDisabled

(***************************************************************************)
(* C2  Flashcards answer-once.  No card is evaluated and recorded more     *)
(* than once: no two entries of cardResults are results of the same card.  *)
(* And a card with a recorded result is presented as answered.             *)
(***************************************************************************)
C2_FlashCardsAnswerOnce ==
  /\ \A j, k \in DOMAIN FlashCards.cardResults :
        FlashCards.cardResults[j].question = FlashCards.cardResults[k].question => j = k
  /\ (viewerRendered /\ cardHasResult(FlashCards.cards[FlashCards.currentIndex + 1])
        /\ op \in {"FlashCards.nextCard", "FlashCards.prevCard"})
     => FlashCards.showAnswer

(***************************************************************************)
(* C3  A failed evaluation call of submitAnswer (quiz, flashcards) leaves  *)
(* the recorded answers and the score as they were, puts the busy flag     *)
(* back to false and reports an error.                                     *)
(***************************************************************************)
C3_SubmitFailureKeepsState ==
  [][ /\ op' = "Quiz.submitAnswer.rejected" =>
           /\ Quiz'.answers = Quiz.answers
           /\ Quiz'.quiz = Quiz.quiz
           /\ ~Quiz'.loading
           /\ alertMsg' # ""
      /\ op' = "FlashCards.submitAnswer.rejected" =>
           /\ FlashCards'.cardResults = FlashCards.cardResults
           /\ FlashCards'.totalScore = FlashCards.totalScore
           /\ FlashCards'.cards = FlashCards.cards
           /\ ~FlashCards'.evaluating
           /\ FlashCards'.error # ""
    ]_vars

\* An evaluation has just failed in a session that already has a result.
C3_Witness ==
  /\ op = "FlashCards.submitAnswer.rejected"
  /\ Len(FlashCards.cardResults) > 0 /\ FlashCards.totalScore > 0

(***************************************************************************)
(* C4  Start is all-or-nothing.  After a step in which the call of start   *)
(* fails (quiz, flashcards, clinical, teaching) no session is in memory    *)
(* and nothing was written to the store.                                   *)
(***************************************************************************)
C4_StartAllOrNothing ==
  [][ /\ op' = "Quiz.startQuiz.rejected" => ~QuizPresent'
      /\ op' = "FlashCards.generate.rejected" => ~FlashCardsPresent'
      /\ op' = "ClinicalCase.startSession.rejected" => ~ClinicalCasePresent'
      /\ op' = "Teaching.startSession.rejected" => ~TeachingPresent'
      /\ op' \in { "Quiz.startQuiz.rejected", "FlashCards.generate.rejected",
                   "ClinicalCase.startSession.rejected",
                   "Teaching.startSession.rejected" } =>
           localStorage' = localStorage
    ]_vars

QuizStatus ==
  IF Quiz.quiz = null THEN "not_started"
  ELSE IF allAnswered THEN "complete" ELSE "active"

FlashCardsStatus ==
  IF FlashCards.sessionComplete THEN "complete"
  ELSE IF Len(FlashCards.cards) > 0 THEN "active" ELSE "not_started"

TeachingStatus ==
  IF Teaching.session = null THEN "not_started"
  ELSE IF Teaching.session.isComplete THEN "complete" ELSE "active"

ClinicalCaseStatus ==
  IF ClinicalCase.session = null THEN "not_started"
  ELSE IF \E k \in DOMAIN ClinicalCase.messages :
             ClinicalCase.messages[k].type = "completion"
       THEN "complete" ELSE "active"

Rank(status) == CASE status = "not_started" -> 0
                  [] status = "active" -> 1
                  [] status = "complete" -> 2

\* The steps that end a session: a reset, a new start, and for the sessions
\* that are not persisted the reload that drops them.
QuizEnds == {"Quiz.resetQuiz", "Quiz.startQuiz.resolved", "reload"}
FlashCardsEnds == {"FlashCards.startOver", "FlashCards.startNewSession",
                   "FlashCards.generate.resolved"}
TeachingEnds == {"Teaching.resetSession", "Teaching.startSession.resolved", "reload"}
ClinicalCaseEnds ==
  {"ClinicalCase.resetSession", "ClinicalCase.startSession.resolved", "reload"}

(***************************************************************************)
(* C6  Within one session the status only moves forward, not_started ->    *)
(* active -> complete; a page reload that restores the persisted record    *)
(* and later answers of the service included.                              *)
(***************************************************************************)
C6_StatusForwardOnly ==
  [][ /\ op' \notin QuizEnds => Rank(QuizStatus') >= Rank(QuizStatus)
      /\ op' \notin FlashCardsEnds => Rank(FlashCardsStatus') >= Rank(FlashCardsStatus)
      /\ op' \notin TeachingEnds => Rank(TeachingStatus') >= Rank(TeachingStatus)
      /\ op' \notin ClinicalCaseEnds =>
           Rank(ClinicalCaseStatus') >= Rank(ClinicalCaseStatus)
    ]_vars

(***************************************************************************)
(* C7  While a call of a session is outstanding (its busy flag is true) no *)
(* new action on that session (submit, hint, advance, navigate, reset,     *)
(* start) takes effect.                                                    *)
(***************************************************************************)
QuizBusy == Quiz.loading \/ Quiz.starting
FlashCardsBusy == FlashCards.loading \/ FlashCards.evaluating \/ FlashCards.analyzing
TeachingBusy == Teaching.loading
ClinicalCaseBusy == ClinicalCase.loading \/ ClinicalCase.starting

QuizActions == {"Quiz.startQuiz", "Quiz.submitAnswer", "Quiz.nextQuestion",
                "Quiz.previousQuestion", "Quiz.questionDot", "Quiz.resetQuiz"}
FlashCardsActions == {"FlashCards.generate", "FlashCards.submitAnswer",
                      "FlashCards.nextCard", "FlashCards.prevCard",
                      "FlashCards.startOver", "FlashCards.startNewSession"}
TeachingActions == {"Teaching.startSession", "Teaching.submitAnswer",
                    "Teaching.resetSession"}
ClinicalCaseActions == {"ClinicalCase.startSession", "ClinicalCase.sendMessage",
                        "ClinicalCase.resetSession"}

C7_BusyRejectsActions ==
  [][ /\ QuizBusy => op' \notin QuizActions
      /\ FlashCardsBusy => op' \notin FlashCardsActions
      /\ TeachingBusy => op' \notin TeachingActions
      /\ ClinicalCaseBusy => op' \notin ClinicalCaseActions
    ]_vars

(***************************************************************************)
(* C8  Quiz and flashcards: advance happens only when the item at the      *)
(* cursor has a recorded answer; an advance that does not complete the     *)
(* session moves the cursor by exactly one; submitAnswer and the arrival   *)
(* of its answer leave the cursor where it is.                             *)
(***************************************************************************)
C8_AdvanceNeedsAnswer ==
  [][ /\ op' = "Quiz.nextQuestion" =>
           /\ hasAnswered
           /\ Quiz'.currentQuestionIndex = Quiz.currentQuestionIndex + 1
      /\ op' = "FlashCards.nextCard" =>
           /\ cardHasResult(FlashCards.cards[FlashCards.currentIndex + 1])
           /\ ~FlashCards'.sessionComplete =>
                FlashCards'.currentIndex = FlashCards.currentIndex + 1
      /\ op' \in {"Quiz.submitAnswer", "Quiz.submitAnswer.resolved",
                  "Quiz.submitAnswer.rejected"} =>
           Quiz'.currentQuestionIndex = Quiz.currentQuestionIndex
      /\ op' \in {"FlashCards.submitAnswer", "FlashCards.submitAnswer.resolved",
                  "FlashCards.submitAnswer.rejected"} =>
           FlashCards'.currentIndex = FlashCards.currentIndex
    ]_vars

(***************************************************************************)
(* C9  Strict forward gating for quiz and flashcards: every item before    *)
(* the cursor has a recorded answer.                                       *)
(***************************************************************************)
C9_ForwardGating ==
  /\ Quiz.quiz # null =>
       \A j \in 1..Quiz.currentQuestionIndex :
          Quiz.quiz.questions[j].question_id \in DOMAIN Quiz.answers
  /\ \A j \in 1..FlashCards.currentIndex :
        j \in DOMAIN FlashCards.cards => cardHasResult(FlashCards.cards[j])

(***************************************************************************)
(* C10  Quiz and flashcards with N items: the session becomes complete     *)
(* exactly in the step that advances from the last item, and an advance    *)
(* of a complete session changes nothing.                                  *)
(***************************************************************************)
C10_CompleteOnLastAdvance ==
  [][ /\ (QuizStatus # "complete" /\ QuizStatus' = "complete") =>
           (op' = "Quiz.nextQuestion" /\ isLastQuestion)
      /\ (FlashCardsStatus # "complete" /\ FlashCardsStatus' = "complete") =>
           (op' = "FlashCards.nextCard"
              /\ FlashCards.currentIndex = Len(FlashCards.cards) - 1)
      /\ (op' = "FlashCards.nextCard"
            /\ FlashCards.currentIndex = Len(FlashCards.cards) - 1) =>
           FlashCardsStatus' = "complete"
      /\ (QuizStatus = "complete" /\ op' = "Quiz.nextQuestion") =>
           Quiz' = Quiz
      /\ (FlashCardsStatus = "complete" /\ op' = "FlashCards.nextCard") =>
           FlashCards' = FlashCards
    ]_vars

\* The clinical session of the component is the same one before and after
\* the step.
SameClinicalSession ==
  /\ ClinicalCase.session # null /\ ClinicalCase'.session # null
  /\ ClinicalCase'.session.session_id = ClinicalCase.session.session_id

\* The step sends a hint-flagged interaction.
HintRequested ==
  /\ op' = "ClinicalCase.sendMessage"
  /\ pending'[Len(pending')].request_hint

(***************************************************************************)
(* C11  In a clinical session the hint budget never grows and is never     *)
(* below 0, and no hint-flagged request is sent when the budget is 0.      *)
(***************************************************************************)
C11_HintBudgetMonotone ==
  [][ /\ ClinicalCase'.availableHints >= 0
      /\ SameClinicalSession =>
           ClinicalCase'.availableHints <= ClinicalCase.availableHints
      /\ HintRequested => ClinicalCase.availableHints > 0
    ]_vars

\* The response that arrives in the step answers a hint-flagged request:
\* showingHint is set with the request and cleared when its call settles.
HintAnswered ==
  /\ op' = "ClinicalCase.sendMessage.resolved"
  /\ ClinicalCase.showingHint

(***************************************************************************)
(* C12  A clinical session starts with a hint budget of 3; the answer to a *)
(* hint request lowers the budget by exactly 1 and appends exactly one     *)
(* turn, a hint turn; no hint request is sent at budget 0.                 *)
(***************************************************************************)
C12_HintLowersByOne ==
  [][ /\ op' = "ClinicalCase.startSession.resolved" =>
           ClinicalCase'.availableHints = InitialHints
      /\ HintAnswered =>
           /\ ClinicalCase'.availableHints = ClinicalCase.availableHints - 1
           /\ Len(ClinicalCase'.messages) = Len(ClinicalCase.messages) + 1
           /\ ClinicalCase'.messages[Len(ClinicalCase'.messages)].type = "hint"
      /\ HintRequested =>
           /\ ClinicalCase.availableHints > 0
           /\ ClinicalCase'.messages = ClinicalCase.messages
    ]_vars

(***************************************************************************)
(* C13  Round trip.  The session a reload restores equals the session in   *)
(* memory before it in every field (items, cursor, recorded answers with   *)
(* their evaluations, score, status), for every modality; and a modality   *)
(* with a session in memory has a persisted record.                        *)
(***************************************************************************)
C13_RoundTrip ==
  [][ /\ op' = "reload" =>
           /\ Quiz'.quiz = Quiz.quiz
           /\ Quiz'.currentQuestionIndex = Quiz.currentQuestionIndex
           /\ Quiz'.answers = Quiz.answers
           /\ FlashCards'.cards = FlashCards.cards
           /\ FlashCards'.currentIndex = FlashCards.currentIndex
           /\ FlashCards'.cardResults = FlashCards.cardResults
           /\ FlashCards'.totalScore = FlashCards.totalScore
           /\ FlashCards'.sessionComplete = FlashCards.sessionComplete
           /\ Teaching'.session = Teaching.session
           /\ Teaching'.qaPairs = Teaching.qaPairs
           /\ ClinicalCase'.session = ClinicalCase.session
           /\ ClinicalCase'.messages = ClinicalCase.messages
           /\ ClinicalCase'.availableHints = ClinicalCase.availableHints
      /\ QuizPresent' => restore(STORAGE_KEYS.quizState)' # null
      /\ FlashCardsPresent' => restore(STORAGE_KEYS.flashCards)' # null
      /\ TeachingPresent' => restore(STORAGE_KEYS.teachingSession)' # null
    ]_vars

\* The controls of a session that are rendered and not disabled.
QuizActionOffered ==
  \/ isLastQuestion                        \* Finish Quiz
  \/ Len(Quiz.quiz.questions) > 1          \* a dot of another question
  \/ allAnswered                           \* Start New Quiz of the panel
FlashCardsActionOffered ==
  \/ setupRendered                         \* Generate
  \/ viewerRendered                        \* Start Over
  \/ completionRendered                    \* Start New Session
TeachingActionOffered == Teaching.session # null          \* Start New Session
ClinicalCaseActionOffered ==
  \/ ~ClinicalCase.loading                 \* the message form
  \/ completionMessageRendered             \* Start New Case

(***************************************************************************)
(* C14  No dead end.  In every state in which a session is present and no  *)
(* call of it is outstanding, after a failed call in particular, some      *)
(* session action (retry, advance, reset or start new) is offered.         *)
(***************************************************************************)
C14_NoDeadEnd ==
  /\ (route = "/quiz" /\ QuizPresent /\ ~QuizBusy) => QuizActionOffered
  /\ (route = "/flashcards" /\ FlashCardsPresent /\ ~FlashCardsBusy) =>
       FlashCardsActionOffered
  /\ (route = "/teach" /\ TeachingPresent /\ ~TeachingBusy) => TeachingActionOffered
  /\ (route = "/clinical" /\ ClinicalCasePresent /\ ~ClinicalCaseBusy) =>
       ClinicalCaseActionOffered

\* The two steps in which a call of the handler `name` settles.
Settled(name) == { name \o ".resolved", name \o ".rejected" }

SettledSteps ==
  UNION { Settled(name) :
            name \in { "Quiz.startQuiz", "Quiz.submitAnswer", "FlashCards.generate",
                       "FlashCards.submitAnswer", "FlashCards.analyzeSession",
                       "Teaching.startSession", "Teaching.submitAnswer",
                       "ClinicalCase.startSession", "ClinicalCase.sendMessage" } }

(***************************************************************************)
(* C15  When a call settles, resolved or rejected (a timeout is a          *)
(* rejection), the busy flag its handler set is false again, and a session *)
(* that is present and not busy then offers an action.                     *)
(***************************************************************************)
C15_BusyReturns ==
  [][ /\ op' \in Settled("Quiz.startQuiz") => ~Quiz'.starting
      /\ op' \in Settled("Quiz.submitAnswer") => ~Quiz'.loading
      /\ op' \in Settled("FlashCards.generate") => ~FlashCards'.loading
      /\ op' \in Settled("FlashCards.submitAnswer") => ~FlashCards'.evaluating
      /\ op' \in Settled("FlashCards.analyzeSession") => ~FlashCards'.analyzing
      /\ op' \in Settled("Teaching.startSession") \cup Settled("Teaching.submitAnswer")
           => ~Teaching'.loading
      /\ op' \in Settled("ClinicalCase.startSession") => ~ClinicalCase'.starting
      /\ op' \in Settled("ClinicalCase.sendMessage") => ~ClinicalCase'.loading
      /\ op' \in SettledSteps =>
           /\ (QuizPresent' /\ ~QuizBusy') => QuizActionOffered'
           /\ (FlashCardsPresent' /\ ~FlashCardsBusy') => FlashCardsActionOffered'
           /\ (TeachingPresent' /\ ~TeachingBusy') => TeachingActionOffered'
           /\ (ClinicalCasePresent' /\ ~ClinicalCaseBusy') => ClinicalCaseActionOffered'
    ]_vars

(***************************************************************************)
(* C16  A failed clinical interaction leaves the session as it was before  *)
(* the action: the step in which the call fails changes neither the turns  *)
(* nor the hint budget nor the stage, and the conversation does not end    *)
(* with the student turn of the message that failed.                       *)
(***************************************************************************)
C16_ClinicalFailureKeepsState ==
  [][ op' = "ClinicalCase.sendMessage.rejected" =>
        /\ ClinicalCase'.messages = ClinicalCase.messages
        /\ ClinicalCase'.availableHints = ClinicalCase.availableHints
        /\ ClinicalCase'.session = ClinicalCase.session
        /\ ClinicalCase'.messages # <<>> =>
             ClinicalCase'.messages[Len(ClinicalCase'.messages)].type # "student"
    ]_vars

\* The answer a request in flight carries, <<"-">> for a request without one.
answerSent(call) ==
  CASE call.api = "submitAnswer" -> call.answer
    [] call.api = "evaluateFlashCardAnswer" -> call.user_answer
    [] call.api = "teach" /\ call.caller = "submitAnswer" -> call.userResponse
    [] call.api = "interactClinicalSession" /\ ~call.request_hint -> call.user_message
    [] OTHER -> <<"-">>

(***************************************************************************)
(* C17  No request carries an answer that is empty after trimming (quiz,   *)
(* flashcards, teaching, clinical message), and a step that leaves such a  *)
(* text in the answer field sends nothing.                                 *)
(***************************************************************************)
C17_NoEmptyAnswerSent ==
  [][ /\ \A i \in DOMAIN pending' :
           trimEnd(trimStart(answerSent(pending'[i]))) # <<>>
      /\ op' = "Teaching.submitAnswer.ignored" =>
           (Teaching' = Teaching /\ pending' = pending)
    ]_vars

\* Enter was pressed in the answer field of a running teaching session with
\* only blanks typed.
C17_Witness ==
  /\ op = "Teaching.submitAnswer.ignored"
  /\ Teaching.currentAnswer # <<>>
  /\ Len(Teaching.qaPairs) > 0

(***************************************************************************)
(* C18  No start request of the quiz or of the flashcards carries an item  *)
(* count below 1 or above 30.                                              *)
(***************************************************************************)
C18_CountWithinRange ==
  \A i \in DOMAIN pending :
     /\ pending[i].api = "startQuiz" => pending[i].num_questions \in 1..30
     /\ pending[i].api = "generateFlashCards" => pending[i].num_cards \in 1..30

\* Sum of the scores of a list of card results.
RECURSIVE sumScores(_)
sumScores(results) ==
  IF results = <<>> THEN 0 ELSE Head(results).score + sumScores(Tail(results))

(***************************************************************************)
(* C19  The final advance of a flashcards session issues exactly one       *)
(* analysis request; it carries the sum of the scores of the cards as      *)
(* total_score, the number of cards as max_score and one result for each   *)
(* card of the deck; and the result of the analysis is stored when it      *)
(* arrives.                                                                *)
(***************************************************************************)
C19_AnalysisRequest ==
  [][ /\ (op' = "FlashCards.nextCard" /\ FlashCards'.sessionComplete) =>
           LET call == pending'[Len(pending')] IN
             /\ Len(pending') = Len(pending) + 1
             /\ call.api = "analyzeFlashCardSession"
             /\ Cardinality({ i \in DOMAIN pending' :
                                pending'[i].api = "analyzeFlashCardSession" }) = 1
             /\ call.total_score = sumScores(call.card_results)
             /\ call.max_score = Len(FlashCards.cards)
             /\ Len(call.card_results) = Len(FlashCards.cards)
             /\ \A j \in DOMAIN FlashCards.cards :
                   \E k \in DOMAIN call.card_results :
                      call.card_results[k].question = FlashCards.cards[j].front
      /\ op' = "FlashCards.analyzeSession.resolved" => FlashCards'.analysis # null
    ]_vars

\* Object.values(answers).filter(a => a.feedback?.is_correct).length
correctCount ==
  Cardinality({ q \in DOMAIN Quiz.answers : Quiz.answers[q].feedback.is_correct })

(***************************************************************************)
(* C20  The score is the sum of the scores of the recorded evaluations:    *)
(* in flashcards totalScore is the sum over cardResults, it stays as it is *)
(* when cardResults stays, and the arrival of an evaluation adds one       *)
(* result and exactly its score; in the quiz the count of correct answers  *)
(* changes only when an answer is recorded or the quiz ends, and then by 1 *)
(* for a correct and by 0 for a wrong answer.                              *)
(***************************************************************************)
C20_ScoreIsSum ==
  [][ /\ FlashCards'.totalScore = sumScores(FlashCards'.cardResults)
      /\ FlashCards'.cardResults = FlashCards.cardResults =>
           FlashCards'.totalScore = FlashCards.totalScore
      /\ op' = "FlashCards.submitAnswer.resolved" =>
           /\ Len(FlashCards'.cardResults) = Len(FlashCards.cardResults) + 1
           /\ FlashCards'.totalScore =
                FlashCards.totalScore
                  + FlashCards'.cardResults[Len(FlashCards'.cardResults)].score
           /\ FlashCards'.evaluation.score =
                FlashCards'.cardResults[Len(FlashCards'.cardResults)].score
      /\ correctCount' # correctCount =>
           op' \in {"Quiz.submitAnswer.resolved"} \cup QuizEnds
      /\ op' = "Quiz.submitAnswer.resolved" =>
           correctCount' = correctCount + (IF Quiz'.feedback.is_correct THEN 1 ELSE 0)
    ]_vars

\* The second evaluation of a deck has arrived, a partial credit after a
\* full one or the other way round.
C20_Witness ==
  /\ op = "FlashCards.submitAnswer.resolved"
  /\ Len(FlashCards.cardResults) = 2
  /\ FlashCards.totalScore = 15

(***************************************************************************)
(* Persistence, independence of the modalities, messages of failures.      *)
(***************************************************************************)
\* What the effect of FlashCards saves of a state.
savedView(state) ==
  [cards |-> state.cards, topic |-> state.topic, currentIndex |-> state.currentIndex]

\* C21: a write to localStorage that fails is swallowed.  Whether or not the
\* store took the item, the step that wrote has its effect in memory (the
\* record of a reset is null and the deck is gone, the record of a generated
\* deck holds that deck at its first card, the record after a navigation is
\* the card shown), and it shows no error: error is as it was and nothing is
\* alerted.
C21_WriteFailureSwallowed ==
  [][ /\ (op' \in {"FlashCards.startOver", "FlashCards.startNewSession"}
            => flashCardsData' = null /\ FlashCards'.cards = <<>>)
      /\ (op' = "FlashCards.generate.resolved"
            => /\ flashCardsData' # null
               /\ flashCardsData'.cards = FlashCards'.cards
               /\ flashCardsData'.currentIndex = 0)
      /\ (op' \in {"FlashCards.nextCard", "FlashCards.prevCard"} /\ viewerRendered'
            => flashCardsData' = savedView(FlashCards'))
      /\ (op' \in {"FlashCards.startOver", "FlashCards.startNewSession",
                   "FlashCards.generate.resolved", "FlashCards.nextCard",
                   "FlashCards.prevCard"}
            => FlashCards'.error = FlashCards.error /\ alertMsg' = "")
    ]_vars

\* Every write of a session failed (nothing is stored), and the session went
\* on to its second card.
C21_Witness ==
  /\ op = "FlashCards.nextCard"
  /\ FlashCards.currentIndex = 1
  /\ flashCardsData = savedView(FlashCards)
  /\ localStorage[STORAGE_KEYS.flashCards] = null


\* The names of the steps of each modality.
Steps ==
  [ Quiz |->
      QuizActions \cup {"Quiz.setSelectedAnswer", "Quiz.setNumQuestions"}
        \cup Settled("Quiz.startQuiz") \cup Settled("Quiz.submitAnswer"),
    FlashCards |->
      FlashCardsActions
        \cup {"FlashCards.setTopic", "FlashCards.setNumCards", "FlashCards.setUserAnswer"}
        \cup Settled("FlashCards.generate") \cup Settled("FlashCards.submitAnswer")
        \cup Settled("FlashCards.analyzeSession"),
    Teaching |->
      TeachingActions
        \cup {"Teaching.setTopic", "Teaching.setCurrentAnswer",
              "Teaching.submitAnswer.ignored"}
        \cup Settled("Teaching.startSession") \cup Settled("Teaching.submitAnswer"),
    ClinicalCase |->
      ClinicalCaseActions \cup {"ClinicalCase.setInput"}
        \cup Settled("ClinicalCase.startSession")
        \cup Settled("ClinicalCase.sendMessage") ]

\* C22: the modalities are independent.  A step of one modality (an input, a
\* start, submit, advance, navigation, hint or reset, or the arrival of one of
\* its responses) leaves the state of the three other modalities and every
\* stored record but its own as they were.
C22_ModalitiesIndependent ==
  [][ /\ op' \in Steps.Quiz
        => UNCHANGED <<FlashCards, flashCardsData, localStorage, Teaching, ClinicalCase>>
      /\ op' \in Steps.FlashCards
        => /\ UNCHANGED <<Quiz, Teaching, ClinicalCase>>
           /\ \A key \in StorageKeys \ {STORAGE_KEYS.flashCards} :
                localStorage'[key] = localStorage[key]
      /\ op' \in Steps.Teaching
        => UNCHANGED <<Quiz, FlashCards, flashCardsData, localStorage, ClinicalCase>>
      /\ op' \in Steps.ClinicalCase
        => UNCHANGED <<Quiz, FlashCards, flashCardsData, localStorage, Teaching>>
      /\ op' \in UNION { Steps[m] : m \in DOMAIN Steps } \cup {"reload"}
    ]_vars

\* A quiz is reset while the store holds a deck of the flash cards.
C22_Witness ==
  /\ op = "Quiz.resetQuiz"
  /\ restore(STORAGE_KEYS.flashCards) # null
  /\ flashCardsData = restore(STORAGE_KEYS.flashCards)


\* C23: the message shown for a failed operation is the error payload of the
\* service when the service answered, and otherwise the message the
\* interceptor gave the failure (timeout, unreachable, other).  Here: what is
\* shown when a call is rejected, in the alert or in the error field of the
\* component, is a payload of the service or one of the three messages.
C23_FailureMessages ==
  [][ \A name \in { "Quiz.startQuiz", "Quiz.submitAnswer", "FlashCards.generate",
                    "FlashCards.submitAnswer", "FlashCards.analyzeSession",
                    "Teaching.startSession", "Teaching.submitAnswer",
                    "ClinicalCase.startSession", "ClinicalCase.sendMessage" } :
        op' = name \o ".rejected" =>
          LET shown == IF op' \in Steps.FlashCards THEN FlashCards'.error
                       ELSE IF op' \in Steps.ClinicalCase THEN ClinicalCase'.error
                       ELSE alertMsg'
          IN  shown \in { IF e.response # null THEN e.response.detail ELSE e.message :
                            e \in Rejections }
    ]_vars


(***************************************************************************)
(* Late responses.                                                         *)
(***************************************************************************)
\* C24: a reset of the teaching session is not undone by a late response.
\* While the session is absent it stays absent, and the history of questions
\* and answers stays empty, until a startSession succeeds.
C24_ResetNotUndone ==
  [][ Teaching.session = null /\ op' # "Teaching.startSession.resolved"
        => Teaching'.session = null /\ Teaching'.qaPairs = <<>>
    ]_vars


\* C25: an evaluation that is displayed is the recorded evaluation of the item
\* at the cursor.  The feedback of the quiz is non-empty only if the current
\* question has a recorded answer, and is the feedback of that answer; the
\* evaluation of the flash cards is non-empty only if the current card has a
\* result, and has the score and the feedback of that result.
C25_DisplayedIsRecorded ==
  /\ Quiz.quiz # null /\ Quiz.feedback # null
       => hasAnswered /\ Quiz.feedback = feedbackOf(currentQuestion.question_id)
  /\ viewerRendered /\ FlashCards.evaluation # null
       => \E k \in DOMAIN FlashCards.cardResults :
            /\ FlashCards.cardResults[k].question =
                 FlashCards.cards[FlashCards.currentIndex + 1].front
            /\ FlashCards.cardResults[k].score = FlashCards.evaluation.score
            /\ FlashCards.cardResults[k].feedback = FlashCards.evaluation.feedback


\* C26: recorded results belong to the current session.  The keys of the
\* answers of the quiz are ids of questions of the current quiz, the results
\* of the flash cards are results of cards of the current deck, and the count
\* of answered items never exceeds the count of items.
C26_ResultsOfCurrentSession ==
  /\ DOMAIN Quiz.answers \subseteq
       (IF Quiz.quiz = null THEN {}
        ELSE { Quiz.quiz.questions[k].question_id : k \in DOMAIN Quiz.quiz.questions })
  /\ \A k \in DOMAIN FlashCards.cardResults :
       \E c \in DOMAIN FlashCards.cards :
         FlashCards.cardResults[k].question = FlashCards.cards[c].front
  /\ Len(FlashCards.cardResults) <= Len(FlashCards.cards)


\* C27: the conversation, the hint budget and the stage of the clinical case
\* are changed only by responses to requests of the session that is present.
\* When an interaction settles that was sent for another session than the
\* present one, or while none is present, the three are as they were.
C27_ClinicalOwnResponses ==
  [][ op' \in Settled("ClinicalCase.sendMessage")
        => \E i \in Awaiting("interactClinicalSession") :
             /\ pending' = RemoveAt(pending, i)
             /\ \/ /\ ClinicalCase.session # null
                   /\ pending[i].session_id = ClinicalCase.session.session_id
                \/ /\ ClinicalCase'.messages = ClinicalCase.messages
                   /\ ClinicalCase'.availableHints = ClinicalCase.availableHints
                   /\ ClinicalCase'.session = ClinicalCase.session
    ]_vars


\* C28: the i-th entry of the results of the flash cards is the result of the
\* i-th card of the deck.
C28_ResultsByPosition ==
  \A k \in DOMAIN FlashCards.cardResults :
    /\ k \in DOMAIN FlashCards.cards
    /\ FlashCards.cardResults[k].question = FlashCards.cards[k].front


(***************************************************************************)
(* Coverage and history.                                                   *)
(***************************************************************************)
\* C29: completion implies full coverage.  When the flash cards session is
\* complete every card of the deck has exactly one result, and when the quiz
\* reports Quiz Complete every question has a recorded answer (answers holds
\* at most one per id).
C29_CompleteCoversAll ==
  /\ FlashCardsStatus = "complete"
       => \A c \in DOMAIN FlashCards.cards :
            Cardinality({ k \in DOMAIN FlashCards.cardResults :
                            FlashCards.cardResults[k].question =
                              FlashCards.cards[c].front }) = 1
  /\ QuizStatus = "complete"
       => \A q \in DOMAIN Quiz.quiz.questions :
            Quiz.quiz.questions[q].question_id \in DOMAIN Quiz.answers


\* C30: the history of the teaching session.  The request for an answer
\* carries the answers of the history, in order, followed by the new answer;
\* when it succeeds the history grows by one pair, the question that was open
\* when the answer was submitted with that answer; when it fails the history
\* and the open question are as they were.
C30_TeachingHistory ==
  [][ /\ op' = "Teaching.submitAnswer"
        => LET call == pending'[Len(pending')]
           IN  /\ call.previous_responses =
                    Append(answersOf(Teaching.qaPairs), trim(Teaching.currentAnswer))
               /\ call.currentQ = Teaching.session.currentQuestion
      /\ op' = "Teaching.submitAnswer.resolved"
        => \E i \in Awaiting("teach") :
             /\ pending' = RemoveAt(pending, i)
             /\ Teaching'.qaPairs =
                  Append(Teaching.qaPairs,
                         [question |-> pending[i].currentQ,
                          answer |-> pending[i].previous_responses[
                                       Len(pending[i].previous_responses)]])
      /\ op' = "Teaching.submitAnswer.rejected"
        => /\ Teaching'.qaPairs = Teaching.qaPairs
           /\ Teaching'.session = Teaching.session
    ]_vars

\* The second answer of a session was accepted.
C30_Witness ==
  /\ op = "Teaching.submitAnswer.resolved"
  /\ Len(Teaching.qaPairs) = 2
  /\ Teaching.qaPairs[1].question # Teaching.qaPairs[2].question


(***************************************************************************)
(* Completion, navigation, scores.                                         *)
(***************************************************************************)
\* C31: once a response has signalled completion the teaching or clinical
\* session is complete, and no answer, message or hint request is sent for a
\* complete session.
C31_NothingSentAfterCompletion ==
  [][ /\ op' = "Teaching.submitAnswer" => TeachingStatus # "complete"
      /\ op' = "ClinicalCase.sendMessage" => ClinicalCaseStatus # "complete"
    ]_vars


\* C32: navigating to an answered item shows the answer and the evaluation
\* recorded for it.  After a navigation of the quiz to a question with an
\* answer, the selected answer and the feedback are the recorded ones; after
\* a navigation of the flash cards to a card with a result, the answer is the
\* one of the result and the evaluation is the one the service gave with the
\* score of the result (score, feedback, is_correct and is_partial).
C32_NavigationShowsRecorded ==
  [][ /\ (op' \in {"Quiz.nextQuestion", "Quiz.previousQuestion", "Quiz.questionDot"}
            /\ hasAnswered')
        => /\ Quiz'.selectedAnswer = Quiz.answers[currentQuestion'.question_id].answer
           /\ Quiz'.feedback = Quiz.answers[currentQuestion'.question_id].feedback
      /\ (op' \in {"FlashCards.nextCard", "FlashCards.prevCard"} /\ viewerRendered'
            /\ FlashCards'.currentIndex + 1 \in DOMAIN FlashCards.cardResults)
        => LET result == FlashCards.cardResults[FlashCards'.currentIndex + 1]
           IN  /\ FlashCards'.userAnswer = result.user_answer
               /\ FlashCards'.evaluation \in
                    { e \in Evaluations(FlashCards.cards[FlashCards'.currentIndex + 1]) :
                        e.score = result.score /\ e.feedback = result.feedback }
    ]_vars


\* Math.round(score) of the quiz header and the completion panel, where score
\* is (correctCount / quiz.questions.length) * 100, or 0 without questions.
displayedScore ==
  LET length == Len(Quiz.quiz.questions)
  IN  IF length > 0 THEN (200 * correctCount + length) \div (2 * length) ELSE 0

\* C33: in a quiz of N >= 1 questions the displayed score is round(100 * c / N),
\* c being the number of recorded answers with a correct evaluation, and it
\* lies between 0 and 100.
C33_QuizScore ==
  Quiz.quiz # null /\ Len(Quiz.quiz.questions) >= 1
    => LET N == Len(Quiz.quiz.questions)
           c == Cardinality({ q \in DOMAIN Quiz.answers :
                                Quiz.answers[q].feedback.is_correct })
       IN  /\ 2 * N * displayedScore <= 200 * c + N
           /\ 200 * c + N < 2 * N * (displayedScore + 1)
           /\ displayedScore >= 0 /\ displayedScore <= 100


\* C34: whenever the quiz or the flash cards have items the cursor is an index
\* of an item: 0 <= cursor < number of items.
C34_CursorInRange ==
  /\ Quiz.quiz # null /\ Len(Quiz.quiz.questions) > 0
       => Quiz.currentQuestionIndex \in 0..(Len(Quiz.quiz.questions) - 1)
  /\ Len(FlashCards.cards) > 0
       => FlashCards.currentIndex \in 0..(Len(FlashCards.cards) - 1)


\* After a reload the cursor is restored on the second card of two.
C34_Witness ==
  /\ op = "reload"
  /\ Len(FlashCards.cards) = 2
  /\ FlashCards.currentIndex = 1


(***************************************************************************)
(* Starts, frames, restore.                                                *)
(***************************************************************************)
\* C35: right after a successful start the session is active with the cursor
\* at 0, no recorded answers and a score of 0, and the persisted record of the
\* modality is the new session.
C35_StartIsFresh ==
  [][ /\ op' = "Quiz.startQuiz.resolved"
        => /\ QuizStatus' = "active"
           /\ Quiz'.currentQuestionIndex = 0
           /\ Quiz'.answers = <<>> /\ correctCount' = 0
           /\ restore(STORAGE_KEYS.quizState)' = Quiz'.quiz
      /\ op' = "FlashCards.generate.resolved"
        => /\ FlashCardsStatus' = "active"
           /\ FlashCards'.currentIndex = 0
           /\ FlashCards'.cardResults = <<>> /\ FlashCards'.totalScore = 0
           /\ flashCardsData' # null
           /\ flashCardsData'.cards = FlashCards'.cards
           /\ flashCardsData'.currentIndex = 0
    ]_vars


\* C36: navigation sends no request and leaves the recorded answers and the
\* score as they are.  A step to the next or previous question or to a dot of
\* the quiz, and a step to the previous or the next card of the flash cards
\* that does not complete the session, leave the calls in flight unchanged
\* and change nothing of the component but the cursor and the displayed
\* answer and evaluation.
C36_NavigationFrame ==
  [][ /\ op' \in {"Quiz.nextQuestion", "Quiz.previousQuestion", "Quiz.questionDot"}
        => /\ pending' = pending
           /\ [Quiz' EXCEPT !.currentQuestionIndex = 0, !.selectedAnswer = <<>>,
                            !.feedback = null]
                = [Quiz EXCEPT !.currentQuestionIndex = 0, !.selectedAnswer = <<>>,
                               !.feedback = null]
      /\ (op' \in {"FlashCards.nextCard", "FlashCards.prevCard"}
            /\ ~FlashCards'.sessionComplete)
        => /\ pending' = pending
           /\ [FlashCards' EXCEPT !.currentIndex = 0, !.userAnswer = <<>>,
                                  !.showAnswer = FALSE, !.evaluation = null]
                = [FlashCards EXCEPT !.currentIndex = 0, !.userAnswer = <<>>,
                                     !.showAnswer = FALSE, !.evaluation = null]
    ]_vars

\* Previous went back to a card with a result, from a card with a result.
C36_Witness ==
  /\ op = "FlashCards.prevCard"
  /\ Len(FlashCards.cardResults) = 2
  /\ FlashCards.currentIndex = 0
  /\ FlashCards.evaluation # null
  /\ FlashCards.totalScore = sumScores(FlashCards.cardResults)


\* C37: the hint budget of the clinical case is changed only by a hint
\* request.  When an interaction that was not a hint request settles,
\* resolved or rejected, the budget is as it was.
C37_BudgetOnlyByHint ==
  [][ op' \in Settled("ClinicalCase.sendMessage")
        => \E i \in Awaiting("interactClinicalSession") :
             /\ pending' = RemoveAt(pending, i)
             /\ ~pending[i].request_hint
                  => ClinicalCase'.availableHints = ClinicalCase.availableHints
    ]_vars


\* C38: for each modality at most one evaluation or interaction request (quiz
\* answer, flash card evaluation, teach, clinical interaction) is in flight.
C38_OneRequestInFlight ==
  \A api \in {"submitAnswer", "evaluateFlashCardAnswer", "teach",
              "interactClinicalSession"} :
    Cardinality(Awaiting(api)) <= 1


\* C39: restoring from the store never fails.  An item that is missing or is
\* not valid JSON restores as no session, an item that is valid JSON restores
\* as its value whatever the other items are, and what the page holds after a
\* load or a reload is what was restored.  (The chat, whose initializer
\* yields an empty list instead of null, is not part of the model.)
C39_RestoreNeverFails ==
  /\ \A key \in StorageKeys \ {STORAGE_KEYS.chatMessages} :
       restore(key) = IF localStorage[key] # null /\ "json" \in DOMAIN localStorage[key]
                      THEN localStorage[key].json
                      ELSE null
  /\ op \in {"load", "reload"}
       => /\ flashCardsData = restore(STORAGE_KEYS.flashCards)
          /\ FlashCards = FlashCardsInitial(IF route = "/flashcards" THEN flashCardsData
                                            ELSE null)

\* After a reload the item of the teaching session is not JSON and restores as
\* no session, while the deck of the flash cards is restored.
C39_Witness ==
  /\ op = "reload"
  /\ localStorage[STORAGE_KEYS.teachingSession] # null
  /\ restore(STORAGE_KEYS.teachingSession) = null
  /\ flashCardsData # null
  /\ flashCardsData = localStorage[STORAGE_KEYS.flashCards].json

====
